---- MODULE Spec2Model ----
(***************************************************************************)
(* MIC Wallet & Ledger (oaa-api/routes/wallet.py): the append-only ledger, *)
(* the circuit breaker tied to the Global Integrity Index, the wallet      *)
(* reads and the Earn API, run by the request threads of the Flask server. *)
(* The reward calculation and the learning routes of                       *)
(* oaa-api/routes/learning.py follow the reads.                            *)
(*                                                                         *)
(* Units.  Python floats are modelled as exact decimals held in integers:  *)
(*   gii, integrity_score : units of 0.00001  (0.50 is 50000)              *)
(*   an amount before rounding : units of 0.001 (1.0 is 1000)              *)
(*   a stored amount, a balance : units of 0.01 (1.0 is 100)               *)
(* round(x, n) is Python's round-half-to-even on the decimal value.        *)
(***************************************************************************)
EXTENDS Integers, Sequences, FiniteSets, TLC

VARIABLES
    MIC_LEDGER,     \* wallet.py:29   the list of ledger entries
    SIMULATED_GII,  \* wallet.py:66   the Global Integrity Index
    utcnow,         \* the clock read by datetime.utcnow()
    uuid_issued,    \* how many uuid4 values have been drawn so far
    pc,             \* per request thread: where it stands
    loc,            \* per request thread: the locals of the running call
    resp,           \* per request thread: what the call returned
    blocked_writes  \* history: has write_to_ledger refused a call so far

vars == <<MIC_LEDGER, SIMULATED_GII, utcnow, uuid_issued, pc, loc, resp,
          blocked_writes>>

----------------------------------------------------------------------------
(* Bounds of the model *)

MaxLedger == 2      \* entries the ledger may hold
MaxClock == 1       \* ticks the clock may advance
MaxBulkLedger == 102 \* entries of the ledger that the page caps are tried on
MaxPagedLedger == 3 \* entries of the ledger that a client pages through
MaxPagedClock == 2  \* ticks the clock may advance while a client pages

Threads == {"t1", "t2"}

----------------------------------------------------------------------------
(* MIC_CONFIG and MICReason *)

gii_threshold_healthy == 90000
gii_threshold_warning == 75000
gii_threshold_critical == 60000
gii_threshold_halt == 50000

MICReason == {"LEARN", "EARN", "CORRECTION", "BONUS", "REFLECTION", "CIVIC"}

source_rewards ==
    [s \in {"oaa_tutor_question", "oaa_tutor_session_complete",
            "reflection_entry_created", "reflection_phase_complete",
            "reflection_entry_complete", "reflection_spark",
            "reflection_geist_mode", "reflection_epiphany",
            "shield_module_complete", "shield_checklist_item",
            "civic_radar_action_taken", "learning_module_completion"} |->
        CASE s = "oaa_tutor_question" -> 2
          [] s = "oaa_tutor_session_complete" -> 5
          [] s = "reflection_entry_created" -> 3
          [] s = "reflection_phase_complete" -> 5
          [] s = "reflection_entry_complete" -> 10
          [] s = "reflection_spark" -> 4
          [] s = "reflection_geist_mode" -> 7
          [] s = "reflection_epiphany" -> 12
          [] s = "shield_module_complete" -> 15
          [] s = "shield_checklist_item" -> 2
          [] s = "civic_radar_action_taken" -> 5
          [] s = "learning_module_completion" -> 0]

----------------------------------------------------------------------------
(* Python built-ins *)

\* round(x, n) where x counts units ten times finer than the result:
\* round half to even.
py_round_div10(x) ==
    LET q == x \div 10
        r == x % 10
    IN  IF r < 5 THEN q
        ELSE IF r > 5 THEN q + 1
        ELSE IF q % 2 = 0 THEN q ELSE q + 1

Min(a, b) == IF a < b THEN a ELSE b
Max(a, b) == IF a > b THEN a ELSE b

\* s[a:b]
py_slice(s, a, b) ==
    LET n == Len(s)
        lo == IF a < 0 THEN Max(n + a, 0) ELSE Min(a, n)
        hi == IF b < 0 THEN Max(n + b, 0) ELSE Min(b, n)
    IN  IF lo < hi THEN SubSeq(s, lo + 1, hi) ELSE <<>>

----------------------------------------------------------------------------
(* Inputs: request headers, request bodies and call arguments *)

\* Authorization headers: none at all, a bearer token of at most 10
\* characters, and two long bearer tokens.
Tokens == {"", "Bearer short", "Bearer alice-token-0001"}

Users == {"user_000001", "user_000002"}

\* A meta dict: which of the two keys the ledger code looks at it holds,
\* and their values.  mic_num says whether mic_earned is a number.
Meta(has_mic, mic_num, mic, has_is, is) ==
    [has_mic |-> has_mic, mic_num |-> mic_num, mic_earned |-> mic,
     has_is |-> has_is, integrity_score |-> is]

EmptyMeta == Meta(FALSE, TRUE, 0, FALSE, 0)

Metas ==
    { EmptyMeta,
      Meta(TRUE, TRUE, -1000, FALSE, 0),      \* {"mic_earned": -1.0}
      Meta(TRUE, FALSE, 0, FALSE, 0) }        \* {"mic_earned": "ten"}

\* "" stands for a request without a source (None and "" are both falsy).
Sources == {"", "learning_module_completion", "quiz_bonus"}

\* Values the Global Integrity Index takes: below halt (0.49996, which
\* rounds to 0.5 at 4 places), exactly halt, and healthy.
GiiValues == {49996, 50000, 95000}

\* Arguments of direct write_to_ledger calls.
WriteAmounts == {-1000, 0, 1000}
WriteReasons == {"CORRECTION"}
\* Reasons a caller may pass: one of MICReason and one that is not.
AnyReasons == {"CORRECTION", "GIFT"}

----------------------------------------------------------------------------
(* Pure functions of wallet.py *)

get_current_gii == SIMULATED_GII

\* Mutant: the breaker stays tripped once a write was refused.
check_circuit_breaker_sticky(gii) == gii < gii_threshold_halt \/ blocked_writes

\* Mutant: the breaker also trips at the halt value itself.
check_circuit_breaker_inclusive(gii) == gii <= gii_threshold_halt

\* Lines 79-84: is_active
check_circuit_breaker(gii) == gii < gii_threshold_halt

\* The multiplier in tenths: 1.0, 0.8, 0.5, 0.
\* Mutant: a threshold itself belongs to the band below it.
calculate_gii_multiplier_strict(gii) ==
    IF gii > gii_threshold_healthy THEN 10
    ELSE IF gii > gii_threshold_warning THEN 8
    ELSE IF gii > gii_threshold_critical THEN 5
    ELSE 0

calculate_gii_multiplier(gii) ==
    IF gii >= gii_threshold_healthy THEN 10
    ELSE IF gii >= gii_threshold_warning THEN 8
    ELSE IF gii >= gii_threshold_critical THEN 5
    ELSE 0

\* "" is None: no user.
get_user_id_from_token(auth_header) ==
    CASE auth_header = "Bearer alice-token-0001" -> "user_000001"
      [] auth_header = "Bearer bob-token-00002" -> "user_000002"
      [] OTHER -> ""

\* The prefixes, among those earn_mic tests, that a source starts with.
startswith(source, prefix) ==
    CASE source = "learning_module_completion" -> prefix = "learning"
      [] source = "learnings_digest" -> prefix = "learning"
      [] source = "oaa_tutor_question" -> prefix = "oaa"
      [] source = "reflection_spark" -> prefix = "reflection"
      [] source = "civic_radar_action_taken" -> prefix = "civic"
      [] source = "shield_checklist_item" -> prefix = "shield"
      [] OTHER -> FALSE

NoEntry ==
    [id |-> 0, user_id |-> "", amount |-> 0, reason |-> "", source |-> "",
     meta |-> EmptyMeta, integrity_score |-> 0, gii |-> 0, created_at |-> 0]

\* Mutant: the id is the entry's position in the ledger, not a fresh uuid.
make_entry_id_by_position(id, user_id, amount, reason, source, meta, integrity_score, gii, now) ==
    [id |-> Len(MIC_LEDGER) + 1, user_id |-> user_id,
     amount |-> py_round_div10(amount),
     reason |-> reason, source |-> source, meta |-> meta,
     integrity_score |-> 10 * py_round_div10(integrity_score),
     gii |-> 10 * py_round_div10(gii), created_at |-> now]

\* The dict literal of write_to_ledger.
make_entry(id, user_id, amount, reason, source, meta, integrity_score, gii, now) ==
    [id |-> id, user_id |-> user_id, amount |-> py_round_div10(amount),
     reason |-> reason, source |-> source, meta |-> meta,
     integrity_score |-> 10 * py_round_div10(integrity_score),
     gii |-> 10 * py_round_div10(gii), created_at |-> now]

\* Mutant: the new entry is put first.
ledger_prepend(ledger, entry) == <<entry>> \o ledger

\* Mutant: the entry is appended twice.
ledger_append_twice(ledger, entry) == Append(Append(ledger, entry), entry)

\* Mutant: the entries share one gii, refreshed at each write.
ledger_append_refreshing(ledger, entry) ==
    [i \in 1..(Len(ledger) + 1) |->
        IF i <= Len(ledger) THEN [ledger[i] EXCEPT !.gii = entry.gii] ELSE entry]

\* MIC_LEDGER.append(entry)
ledger_append(ledger, entry) == Append(ledger, entry)

RECURSIVE sum_user_amounts(_, _, _)
\* sum(entry["amount"] for entry in ledger[i:] if entry["user_id"] == user_id)
sum_user_amounts(ledger, user_id, i) ==
    IF i > Len(ledger) THEN 0
    ELSE (IF ledger[i].user_id = user_id THEN ledger[i].amount ELSE 0)
         + sum_user_amounts(ledger, user_id, i + 1)

\* Mutant: the sum starts at the second entry.
get_user_balance_skips_first(user_id) == sum_user_amounts(MIC_LEDGER, user_id, 2)

get_user_balance(user_id) == sum_user_amounts(MIC_LEDGER, user_id, 1)

RECURSIVE sum_user_earned(_, _, _)
\* sum(entry["amount"] for entry in ledger[i:]
\*     if entry["user_id"] == user_id and entry["amount"] > 0)
sum_user_earned(ledger, user_id, i) ==
    IF i > Len(ledger) THEN 0
    ELSE (IF ledger[i].user_id = user_id /\ ledger[i].amount > 0
          THEN ledger[i].amount ELSE 0)
         + sum_user_earned(ledger, user_id, i + 1)

\* Mutant: corrections are counted too.
get_user_total_earned_net(user_id) == sum_user_amounts(MIC_LEDGER, user_id, 1)

get_user_total_earned(user_id) == sum_user_earned(MIC_LEDGER, user_id, 1)

\* The order of the created_at strings, datetime.isoformat() + "Z":
\* isoformat() leaves the fraction out when the microsecond is 0, so within
\* one second "...:07Z" sorts after "...:07.500000Z" ("." < "Z").
\* A clock value t is second t \div TicksPerSecond, fraction t % TicksPerSecond.
TicksPerSecond == 2

created_at_less(a, b) ==
    LET sa == a \div TicksPerSecond
        sb == b \div TicksPerSecond
        fa == a % TicksPerSecond
        fb == b % TicksPerSecond
    IN  IF sa # sb THEN sa < sb
        ELSE IF fa = fb THEN FALSE
        ELSE IF fa = 0 THEN FALSE
        ELSE IF fb = 0 THEN TRUE
        ELSE fa < fb

RECURSIVE insert_desc(_, _)
\* e put into sorted, which is in non-increasing created_at order, after
\* every element that is not smaller than it (the sort is stable).
insert_desc(sorted, e) ==
    IF sorted = <<>> THEN <<e>>
    ELSE IF created_at_less(Head(sorted).created_at, e.created_at)
         THEN <<e>> \o sorted
         ELSE <<Head(sorted)>> \o insert_desc(Tail(sorted), e)

RECURSIVE sort_created_at_desc(_, _)
\* list.sort(key=lambda x: x["created_at"], reverse=True) of events[i:]
\* merged into done
sort_created_at_desc(events, done) ==
    IF events = <<>> THEN done
    ELSE sort_created_at_desc(Tail(events), insert_desc(done, Head(events)))

user_entries(ledger, user_id) ==
    SelectSeq(ledger, LAMBDA e : e.user_id = user_id)

\* Mutant: the page starts one entry late.
get_user_events_from_next(user_id, limit, offset) ==
    LET user_events == sort_created_at_desc(user_entries(MIC_LEDGER, user_id), <<>>)
    IN  py_slice(user_events, offset + 1, offset + 1 + limit)

get_user_events(user_id, limit, offset) ==
    LET user_events == sort_created_at_desc(user_entries(MIC_LEDGER, user_id), <<>>)
    IN  py_slice(user_events, offset, offset + limit)

----------------------------------------------------------------------------
(* The reward calculation, oaa-api/routes/learning.py.                     *)
(* Units: accuracy in 0.001 (0.70 is 700), a multiplier in tenths (1.2 is  *)
(* 12), a bonus percentage in hundredths (0.10 is 10), a reward before     *)
(* rounding in 0.00001 (base_reward x accuracy x two multipliers).         *)

\* learning.py:19-243: id, difficulty and micReward of each module.
LEARNING_MODULES ==
    <<
      [id |-> "constitutional-ai-101", difficulty |-> "beginner", micReward |-> 50],
      [id |-> "integrity-economics", difficulty |-> "intermediate", micReward |-> 75],
      [id |-> "drift-suppression", difficulty |-> "advanced", micReward |-> 100],
      [id |-> "multi-agent-consensus", difficulty |-> "intermediate", micReward |-> 65],
      [id |-> "three-covenants", difficulty |-> "beginner", micReward |-> 40],
      [id |-> "calculus-fundamentals", difficulty |-> "intermediate", micReward |-> 100],
      [id |-> "linear-algebra-ml", difficulty |-> "intermediate", micReward |-> 90],
      [id |-> "probability-statistics-ai", difficulty |-> "intermediate", micReward |-> 85],
      [id |-> "algorithms-complexity", difficulty |-> "intermediate", micReward |-> 95],
      [id |-> "data-structures-fundamentals", difficulty |-> "beginner", micReward |-> 70],
      [id |-> "cryptography-blockchain", difficulty |-> "advanced", micReward |-> 120],
      [id |-> "neural-networks-intro", difficulty |-> "intermediate", micReward |-> 100],
      [id |-> "transformers-attention", difficulty |-> "advanced", micReward |-> 130],
      [id |-> "reinforcement-learning", difficulty |-> "advanced", micReward |-> 110],
      [id |-> "quantum-computing-intro", difficulty |-> "advanced", micReward |-> 125],
      [id |-> "network-theory-systems", difficulty |-> "intermediate", micReward |-> 90],
      [id |-> "information-theory", difficulty |-> "advanced", micReward |-> 105],
      [id |-> "molecular-biology-ai", difficulty |-> "intermediate", micReward |-> 85],
      [id |-> "climate-science-ai", difficulty |-> "intermediate", micReward |-> 90],
      [id |-> "bioinformatics-genomics", difficulty |-> "advanced", micReward |-> 115]
    >>

\* learning.py:246-266, MIC_CONFIG
minimum_accuracy == 700
perfect_score_bonus == 10

streak_bonuses == [days \in {3, 7, 30} |->
                      CASE days = 3 -> 5 [] days = 7 -> 10 [] days = 30 -> 25]

difficulty_multipliers ==
    [d \in {"beginner", "intermediate", "advanced"} |->
        CASE d = "beginner" -> 10 [] d = "intermediate" -> 12
          [] d = "advanced" -> 15]

gii_thresholds ==
    [healthy |-> 90000, warning |-> 75000, critical |-> 60000, halt |-> 50000]

\* round(x) for x = n / d, d > 0: to the nearest integer, a tie to the even
\* one.
py_round(n, d) ==
    LET q == n \div d
        r == n % d
    IN  IF 2 * r > d THEN q + 1
        ELSE IF 2 * r < d THEN q
        ELSE IF q % 2 = 0 THEN q ELSE q + 1

\* What one unit of reward is in the units of a reward before rounding.
RewardUnit == 100000

\* Mutant: the multiplier between the critical and the warning threshold
\* is interpolated.
reward_gii_mult_interpolated(gii) ==
    IF gii >= gii_thresholds.healthy THEN 10
    ELSE IF gii >= gii_thresholds.warning THEN 8
    ELSE IF gii >= gii_thresholds.critical
    THEN 5 + (3 * (gii - gii_thresholds.critical))
                 \div (gii_thresholds.warning - gii_thresholds.critical)
    ELSE 0

\* Mutant: the critical threshold itself already gives no reward.
reward_gii_mult_zero_at_critical(gii) ==
    IF gii >= gii_thresholds.healthy THEN 10
    ELSE IF gii >= gii_thresholds.warning THEN 8
    ELSE IF gii > gii_thresholds.critical THEN 5
    ELSE 0

\* learning.py:308-316: the GII multiplier, in tenths.
reward_gii_mult(gii) ==
    IF gii >= gii_thresholds.healthy THEN 10
    ELSE IF gii >= gii_thresholds.warning THEN 8
    ELSE IF gii >= gii_thresholds.critical THEN 5
    ELSE 0

\* learning.py:306: "difficulty_multipliers".get(difficulty, 1.0)
reward_difficulty_mult(difficulty) ==
    IF difficulty \in DOMAIN difficulty_multipliers
    THEN difficulty_multipliers[difficulty] ELSE 10

RECURSIVE reward_streak_pct_cumulative(_, _)
\* Mutant: every threshold the streak reaches adds its percentage.
reward_streak_pct_cumulative(streak, days) ==
    IF days = {} THEN 0
    ELSE LET d == CHOOSE d \in days : \A x \in days : x <= d
         IN  (IF streak >= d THEN streak_bonuses[d] ELSE 0)
             + reward_streak_pct_cumulative(streak, days \ {d})

RECURSIVE reward_streak_pct(_, _)
\* learning.py:326-331: the thresholds from the largest down, the first one
\* the streak reaches gives the percentage.
reward_streak_pct(streak, days) ==
    IF days = {} THEN 0
    ELSE LET d == CHOOSE d \in days : \A x \in days : x <= d
         IN  IF streak >= d THEN streak_bonuses[d]
             ELSE reward_streak_pct(streak, days \ {d})

\* Mutant: a score of 0.999 and more counts as perfect.
reward_is_perfect_near(accuracy) == accuracy >= 999

\* learning.py:323: "if accuracy == 1.0"
reward_is_perfect(accuracy) == accuracy = 1000

\* Mutant: the minimum accuracy itself is too low.
reward_accuracy_ok_exclusive(accuracy) == accuracy > minimum_accuracy

\* learning.py:295: "accuracy >= minimum_accuracy"
reward_accuracy_ok(accuracy) == accuracy >= minimum_accuracy

\* The dict calculate_mic_reward returns.  A key the dict does not hold is
\* FALSE or 0 here; has_breakdown tells whether breakdown and multipliers
\* are there.
Reward(mic_earned, circuit_breaker_active, accuracy_too_low) ==
    [mic_earned |-> mic_earned,
     circuit_breaker_active |-> circuit_breaker_active,
     accuracy_too_low |-> accuracy_too_low,
     has_breakdown |-> FALSE, base |-> 0, perfect_bonus |-> 0,
     streak_bonus |-> 0, mult_difficulty |-> 0, mult_gii |-> 0,
     xp_earned |-> 0, new_streak |-> 0]

NoReward == Reward(0, FALSE, FALSE)

\* Mutant: the accuracy is looked at before the circuit breaker.
calculate_mic_reward_accuracy_first(base_reward, accuracy, difficulty, streak, gii) ==
    IF ~reward_accuracy_ok(accuracy) THEN Reward(0, FALSE, TRUE)
    ELSE IF gii < gii_thresholds.halt THEN Reward(0, TRUE, FALSE)
    ELSE [Reward(base_reward, FALSE, FALSE) EXCEPT !.has_breakdown = TRUE]

\* learning.py:269-350
calculate_mic_reward(base_reward, accuracy, difficulty, streak, gii) ==
    IF gii < gii_thresholds.halt THEN Reward(0, TRUE, FALSE)
    ELSE LET effective_accuracy ==
                 IF reward_accuracy_ok(accuracy)
                 THEN Max(accuracy, minimum_accuracy) ELSE 0
         IN
         IF effective_accuracy = 0 THEN Reward(0, FALSE, TRUE)
         ELSE LET difficulty_mult == reward_difficulty_mult(difficulty)
                  gii_mult == reward_gii_mult(gii)
                  base_mic == base_reward * accuracy * difficulty_mult * gii_mult
                  perfect_bonus ==
                      IF reward_is_perfect(accuracy)
                      THEN base_reward * perfect_score_bonus * 1000 ELSE 0
                  streak_bonus ==
                      base_reward
                      * reward_streak_pct(streak, DOMAIN streak_bonuses) * 1000
                  total_mic == py_round(base_mic + perfect_bonus + streak_bonus,
                                        RewardUnit)
              IN  [Reward(total_mic, FALSE, FALSE) EXCEPT
                      !.has_breakdown = TRUE,
                      !.base = py_round(base_mic, RewardUnit),
                      !.perfect_bonus = py_round(perfect_bonus, RewardUnit),
                      !.streak_bonus = py_round(streak_bonus, RewardUnit),
                      !.mult_difficulty = difficulty_mult,
                      !.mult_gii = gii_mult]

----------------------------------------------------------------------------
(* State of a request thread *)

\* The locals of write_to_ledger and earn_mic, and what the call has done:
\* chk_gii is the index its last circuit-breaker check read, gii the one
\* read for the snapshot, ledger0 the ledger when the call began, appended
\* the number of entries it has appended.
\* args are the arguments of a learning.py call.
NoArgs ==
    [module_id |-> "", base_reward |-> 0, acc_num |-> TRUE, accuracy |-> 0,
     difficulty |-> "", streak |-> 0, gii |-> 0]

\* pager is the state of a client that pages through a user's events: its
\* limit, the offset of its last read, the ids that were in the ledger at
\* its first read, the ids returned to it and how many entries it got.
NoPager == [limit |-> 0, offset |-> 0, first |-> {}, seen |-> {}, got |-> 0]

NoLoc ==
    [op |-> "none", user_id |-> "", amount |-> 0, amt_num |-> TRUE,
     reason |-> "", source |-> "", meta |-> EmptyMeta, integrity_score |-> 0,
     chk_gii |-> 0, gii |-> 0, entry |-> NoEntry, ledger0 |-> <<>>,
     appended |-> 0, args |-> NoArgs, pager |-> NoPager]

\* What a call returned.  status: an HTTP status for a request; for a
\* direct function call 1 = returned, -1 = raised (error names the
\* exception).  A body carries some of the fields, the others keep their
\* defaults.
Response(status, error, entry, balance, total_earned, count, items) ==
    [status |-> status, error |-> error, entry |-> entry,
     ledger_proof |-> <<>>, balance |-> balance,
     total_earned |-> total_earned, count |-> count, items |-> items,
     reward |-> NoReward]

NoResp == Response(0, "", NoEntry, 0, 0, 0, <<>>)

Failure(status, error) == Response(status, error, NoEntry, 0, 0, 0, <<>>)

Init ==
    /\ MIC_LEDGER = <<>>
    /\ SIMULATED_GII = 95000
    /\ utcnow = 0
    /\ uuid_issued = 0
    /\ pc = [p \in Threads |-> "idle"]
    /\ loc = [p \in Threads |-> NoLoc]
    /\ resp = [p \in Threads |-> NoResp]
    /\ blocked_writes = FALSE

Finish(p, r) ==
    /\ pc' = [pc EXCEPT ![p] = "done"]
    /\ resp' = [resp EXCEPT ![p] = r]

----------------------------------------------------------------------------
(* write_to_ledger, wallet.py:141-186 *)

\* A direct call write_to_ledger(user_id, amount, reason, source).
CallWriteEntry(p, user_id, amount, reason) ==
    /\ pc[p] = "idle"
    /\ pc' = [pc EXCEPT ![p] = "w_check"]
    /\ loc' = [loc EXCEPT ![p] =
                 [NoLoc EXCEPT !.op = "write_entry", !.user_id = user_id,
                               !.amount = amount, !.reason = reason,
                               !.source = "manual_adjustment",
                               !.integrity_score = 100000,
                               !.ledger0 = MIC_LEDGER]]
    /\ UNCHANGED <<MIC_LEDGER, SIMULATED_GII, utcnow, uuid_issued, resp,
                   blocked_writes>>

\* What the caller of write_to_ledger gets when it raises: a direct caller
\* sees the exception; earn_mic turns ValueError into 503 "Minting failed"
\* (lines 383-387) and lets any other exception through (500).
Raised(p, exception) ==
    IF loc[p].op = "write_entry" THEN Failure(-1, exception)
    ELSE IF exception = "ValueError" THEN Failure(503, "Minting failed")
    ELSE Failure(500, exception)

\* Mutant: a halt blocks every amount.
write_blocked_any_amount(is_halted, amount) == is_halted

\* Line 166: "if is_halted and amount > 0"
write_blocked(is_halted, amount) == is_halted /\ amount > 0

\* Lines 165-167: the circuit breaker.  "is_halted and amount > 0" compares
\* the amount only when is_halted holds; a non-number then raises TypeError.
WriteCheck(p) ==
    /\ pc[p] = "w_check"
    /\ LET is_halted == check_circuit_breaker(get_current_gii)
       IN  /\ loc' = [loc EXCEPT ![p].chk_gii = get_current_gii]
           /\ IF is_halted /\ ~loc[p].amt_num
              THEN /\ Finish(p, Raised(p, "TypeError"))
                   /\ UNCHANGED blocked_writes
              ELSE IF write_blocked(is_halted, loc[p].amount)
              THEN /\ Finish(p, Raised(p, "ValueError"))
                   /\ blocked_writes' = TRUE
              ELSE /\ pc' = [pc EXCEPT ![p] = "w_build"]
                   /\ UNCHANGED <<resp, blocked_writes>>
    /\ UNCHANGED <<MIC_LEDGER, SIMULATED_GII, utcnow, uuid_issued>>

\* Lines 169-181: the gii snapshot and the entry.  uuid4 is taken to be
\* fresh: the next value never drawn before.  round(amount, 2) raises
\* TypeError for a non-number; the uuid drawn for that entry is lost with
\* it and is not counted.
WriteBuild(p) ==
    /\ pc[p] = "w_build"
    /\ IF ~loc[p].amt_num
       THEN /\ Finish(p, Raised(p, "TypeError"))
            /\ UNCHANGED <<loc, uuid_issued>>
       ELSE /\ uuid_issued' = uuid_issued + 1
            /\ loc' = [loc EXCEPT ![p].gii = get_current_gii,
                                   ![p].entry =
                         make_entry(uuid_issued + 1, loc[p].user_id,
                                    loc[p].amount, loc[p].reason,
                                    loc[p].source, loc[p].meta,
                                    loc[p].integrity_score,
                                    get_current_gii, utcnow)]
            /\ pc' = [pc EXCEPT ![p] = "w_append"]
            /\ UNCHANGED resp
    /\ UNCHANGED <<MIC_LEDGER, SIMULATED_GII, utcnow, blocked_writes>>

\* Lines 184-186: the append and the return.
WriteAppend(p) ==
    /\ pc[p] = "w_append"
    /\ MIC_LEDGER' = ledger_append(MIC_LEDGER, loc[p].entry)
    /\ loc' = [loc EXCEPT ![p].appended = loc[p].appended + 1]
    /\ IF loc[p].op = "write_entry"
       THEN Finish(p, Response(1, "", loc[p].entry, 0, 0, 0, <<>>))
       ELSE /\ pc' = [pc EXCEPT ![p] = "earn_respond"]
            /\ UNCHANGED resp
    /\ UNCHANGED <<SIMULATED_GII, utcnow, uuid_issued, blocked_writes>>

----------------------------------------------------------------------------
(* POST /mic/earn, wallet.py:296-387 *)

\* "source_rewards".get(source, 5)
base_reward_of(source) ==
    IF source \in DOMAIN source_rewards THEN source_rewards[source] ELSE 5

\* Mutant: a caller-supplied mic_earned is taken for every source.
earn_amount_any_source(source, meta, gii) ==
    IF meta.has_mic
    THEN [num |-> meta.mic_num, v |-> meta.mic_earned]
    ELSE [num |-> TRUE,
          v |-> 10 * py_round_div10(base_reward_of(source)
                                    * calculate_gii_multiplier(gii) * 100)]

\* Lines 343-348: the amount handed to write_to_ledger, in units of 0.001,
\* and whether it is a number.
earn_amount(source, meta, gii) ==
    IF source = "learning_module_completion" /\ meta.has_mic
    THEN [num |-> meta.mic_num, v |-> meta.mic_earned]
    ELSE [num |-> TRUE,
          v |-> 10 * py_round_div10(base_reward_of(source)
                                    * calculate_gii_multiplier(gii) * 100)]

\* Mutant: a source with no known prefix is booked as a bonus.
earn_reason_bonus(source) ==
    IF startswith(source, "learning") \/ startswith(source, "oaa") THEN "LEARN"
    ELSE IF startswith(source, "reflection") THEN "REFLECTION"
    ELSE IF startswith(source, "civic") \/ startswith(source, "shield") THEN "CIVIC"
    ELSE "BONUS"

\* Lines 350-358
earn_reason(source) ==
    IF startswith(source, "learning") \/ startswith(source, "oaa") THEN "LEARN"
    ELSE IF startswith(source, "reflection") THEN "REFLECTION"
    ELSE IF startswith(source, "civic") \/ startswith(source, "shield") THEN "CIVIC"
    ELSE "EARN"

\* Lines 327-329: earn_mic's own circuit-breaker test.
earn_is_halted(gii) == check_circuit_breaker(gii)

\* Whether a request gets past authentication, the source check and
\* earn_mic's circuit-breaker check, and goes on to write.
EarnProceeds(auth_header, source) ==
    /\ get_user_id_from_token(auth_header) # ""
    /\ source # ""
    /\ ~earn_is_halted(get_current_gii)

\* require_auth and lines 318-334.
EarnRequest(p, auth_header, source, meta) ==
    /\ pc[p] = "idle"
    /\ LET user_id == get_user_id_from_token(auth_header)
           args == [NoLoc EXCEPT !.op = "earn", !.user_id = user_id,
                                 !.source = source, !.meta = meta,
                                 !.chk_gii = get_current_gii,
                                 !.ledger0 = MIC_LEDGER]
       IN  /\ loc' = [loc EXCEPT ![p] = args]
           /\ IF user_id = ""
              THEN Finish(p, Failure(401, "Authentication required"))
              ELSE IF source = ""
              THEN Finish(p, Failure(400, "source is required"))
              ELSE IF earn_is_halted(get_current_gii)
              THEN Finish(p, Failure(503, "Circuit breaker active"))
              ELSE /\ pc' = [pc EXCEPT ![p] = "earn_amount"]
                   /\ UNCHANGED resp
    /\ UNCHANGED <<MIC_LEDGER, SIMULATED_GII, utcnow, uuid_issued, blocked_writes>>

\* Lines 337-361: the amount, the reason and the integrity score.
EarnAmount(p) ==
    /\ pc[p] = "earn_amount"
    /\ LET a == earn_amount(loc[p].source, loc[p].meta, get_current_gii)
       IN  loc' = [loc EXCEPT ![p].amount = a.v,
                              ![p].amt_num = a.num,
                              ![p].reason = earn_reason(loc[p].source),
                              ![p].integrity_score =
                                  IF loc[p].meta.has_is
                                  THEN loc[p].meta.integrity_score
                                  ELSE 100000]
    /\ pc' = [pc EXCEPT ![p] = "w_check"]
    /\ UNCHANGED <<MIC_LEDGER, SIMULATED_GII, utcnow, uuid_issued, resp,
                   blocked_writes>>

\* Mutant: building the response fails, after the append.
earn_response_fails(entry, new_balance) == Failure(500, "TypeError")

\* Mutant: the new balance leaves the new entry out.
earn_response_without_entry(entry, new_balance) ==
    [Response(201, "", entry, new_balance - entry.amount, 0, 0, <<>>)
        EXCEPT !.ledger_proof = <<"ledger:", entry.id>>]

\* Lines 375-381: the entry, its ledger proof f"ledger:{entry['id']}" and
\* the new balance, 201.
earn_response(entry, new_balance) ==
    [Response(201, "", entry, new_balance, 0, 0, <<>>)
        EXCEPT !.ledger_proof = <<"ledger:", entry.id>>]

\* Lines 374-381: the response, with the balance as it is now.
EarnRespond(p) ==
    /\ pc[p] = "earn_respond"
    /\ Finish(p, earn_response(loc[p].entry, get_user_balance(loc[p].user_id)))
    /\ UNCHANGED <<MIC_LEDGER, SIMULATED_GII, utcnow, uuid_issued, loc,
                   blocked_writes>>

\* The thread hands its result over and is free for the next request.
Return(p) ==
    /\ pc[p] = "done"
    /\ pc' = [pc EXCEPT ![p] = "idle"]
    /\ loc' = [loc EXCEPT ![p] = NoLoc]
    /\ resp' = [resp EXCEPT ![p] = NoResp]
    /\ UNCHANGED <<MIC_LEDGER, SIMULATED_GII, utcnow, uuid_issued, blocked_writes>>

----------------------------------------------------------------------------
(* The environment *)

\* The integrity index provider reports a new value.
SetGii(g) ==
    /\ g # SIMULATED_GII
    /\ SIMULATED_GII' = g
    /\ UNCHANGED <<MIC_LEDGER, utcnow, uuid_issued, pc, loc, resp, blocked_writes>>

Tick ==
    /\ utcnow < MaxClock
    /\ utcnow' = utcnow + 1
    /\ UNCHANGED <<MIC_LEDGER, SIMULATED_GII, uuid_issued, pc, loc, resp,
                   blocked_writes>>

----------------------------------------------------------------------------
(* The reads, wallet.py:189-293 and 390-498.  Each is one pass over the    *)
(* ledger and changes nothing but what it returns.                         *)

Returns(p, op, user_id, r) ==
    /\ pc[p] = "idle"
    /\ Finish(p, r)
    /\ loc' = [loc EXCEPT ![p].op = op, ![p].user_id = user_id,
                           ![p].ledger0 = MIC_LEDGER]
    /\ UNCHANGED <<MIC_LEDGER, SIMULATED_GII, utcnow, uuid_issued, blocked_writes>>

GetBalance(p, user_id) ==
    Returns(p, "get_balance", user_id,
            Response(1, "", NoEntry, get_user_balance(user_id), 0, 0, <<>>))

GetTotalEarned(p, user_id) ==
    Returns(p, "get_total_earned", user_id,
            Response(1, "", NoEntry, 0, get_user_total_earned(user_id), 0, <<>>))

ListEvents(p, user_id, limit, offset) ==
    Returns(p, "list_events", user_id,
            Response(1, "", NoEntry, 0, 0, 0, get_user_events(user_id, limit, offset)))

\* GET /mic/wallet: balance, total_earned, event_count
get_wallet(auth_header) ==
    LET user_id == get_user_id_from_token(auth_header)
        user_events == user_entries(MIC_LEDGER, user_id)
    IN  IF user_id = "" THEN Failure(401, "Authentication required")
        ELSE Response(200, "", NoEntry,
                      sum_user_amounts(user_events, user_id, 1),
                      sum_user_earned(user_events, user_id, 1),
                      Len(user_events), <<>>)

GetWallet(p, auth_header) ==
    Returns(p, "get_wallet", get_user_id_from_token(auth_header),
            get_wallet(auth_header))

\* GET /mic/events
get_events(auth_header, limit_arg, offset_arg) ==
    LET user_id == get_user_id_from_token(auth_header)
        limit == Min(limit_arg, 100)
    IN  IF user_id = "" THEN Failure(401, "Authentication required")
        ELSE Response(200, "", NoEntry, 0, 0, 0,
                      get_user_events(user_id, limit, offset_arg))

GetEvents(p, auth_header, limit_arg, offset_arg) ==
    Returns(p, "get_events", get_user_id_from_token(auth_header),
            get_events(auth_header, limit_arg, offset_arg))

\* GET /mic/ledger: total_entries, entries, summary
get_ledger(auth_header, limit_arg, offset_arg) ==
    LET user_id == get_user_id_from_token(auth_header)
        limit == Min(limit_arg, 200)
        sorted == sort_created_at_desc(user_entries(MIC_LEDGER, user_id), <<>>)
    IN  IF user_id = "" THEN Failure(401, "Authentication required")
        ELSE Response(200, "", NoEntry, get_user_balance(user_id),
                      get_user_total_earned(user_id), Len(sorted),
                      py_slice(sorted, offset_arg, offset_arg + limit))

GetLedger(p, auth_header, limit_arg, offset_arg) ==
    Returns(p, "get_ledger", get_user_id_from_token(auth_header),
            get_ledger(auth_header, limit_arg, offset_arg))

\* GET /mic/health: total_ledger_entries
mic_health == Response(200, "", NoEntry, 0, 0, Len(MIC_LEDGER), <<>>)

MicHealth(p) == Returns(p, "mic_health", "", mic_health)

\* GET /mic/admin/ledger-stats: total_minted and total_entries
admin_ledger_stats ==
    LET minted == SelectSeq(MIC_LEDGER, LAMBDA e : e.amount > 0)
        RECURSIVE total(_)
        total(i) == IF i > Len(minted) THEN 0 ELSE minted[i].amount + total(i + 1)
    IN  Response(200, "", NoEntry, 0, total(1), Len(MIC_LEDGER), <<>>)

AdminLedgerStats(p) == Returns(p, "admin_ledger_stats", "", admin_ledger_stats)

\* The ids of the entries of a list.
ids_of(entries) == {entries[i].id : i \in DOMAIN entries}

\* A client starts to page through the events of a user: it reads
\* get_user_events(user_id, limit, 0) and goes on until a page is empty.
PageFirst(p, user_id, limit) ==
    /\ pc[p] = "idle"
    /\ LET page == get_user_events(user_id, limit, 0)
       IN  /\ loc' = [loc EXCEPT ![p] =
                        [NoLoc EXCEPT !.op = "page_events",
                                      !.user_id = user_id,
                                      !.ledger0 = MIC_LEDGER,
                                      !.pager =
                            [limit |-> limit, offset |-> 0,
                             first |-> ids_of(user_entries(MIC_LEDGER, user_id)),
                             seen |-> ids_of(page), got |-> Len(page)]]]
           /\ IF page = <<>>
              THEN Finish(p, Response(1, "", NoEntry, 0, 0, 0, page))
              ELSE /\ pc' = [pc EXCEPT ![p] = "paging"]
                   /\ UNCHANGED resp
    /\ UNCHANGED <<MIC_LEDGER, SIMULATED_GII, utcnow, uuid_issued, blocked_writes>>

\* The client reads its next page, get_user_events(user_id, limit,
\* offset + limit).
PageNext(p) ==
    /\ pc[p] = "paging"
    /\ LET pager == loc[p].pager
           offset == pager.offset + pager.limit
           page == get_user_events(loc[p].user_id, pager.limit, offset)
       IN  /\ loc' = [loc EXCEPT ![p].pager =
                        [pager EXCEPT !.offset = offset,
                                      !.seen = pager.seen \cup ids_of(page),
                                      !.got = pager.got + Len(page)]]
           /\ IF page = <<>>
              THEN Finish(p, Response(1, "", NoEntry, 0, 0, 0, page))
              ELSE UNCHANGED <<pc, resp>>
    /\ UNCHANGED <<MIC_LEDGER, SIMULATED_GII, utcnow, uuid_issued, blocked_writes>>

----------------------------------------------------------------------------
(* The learning routes, learning.py:397-519.  None of them touches the     *)
(* ledger of wallet.py; each computes its answer from its arguments.       *)

\* A direct call calculate_mic_reward(base_reward, accuracy, difficulty,
\* streak, gii).
CallCalculateMicReward(p, base_reward, accuracy, difficulty, streak, gii) ==
    /\ pc[p] = "idle"
    /\ Finish(p, [Response(1, "", NoEntry, 0, 0, 0, <<>>) EXCEPT !.reward =
                     calculate_mic_reward(base_reward, accuracy, difficulty,
                                          streak, gii)])
    /\ loc' = [loc EXCEPT ![p] =
                 [NoLoc EXCEPT !.op = "calculate_mic_reward",
                               !.ledger0 = MIC_LEDGER,
                               !.args = [NoArgs EXCEPT
                                   !.base_reward = base_reward,
                                   !.accuracy = accuracy,
                                   !.difficulty = difficulty,
                                   !.streak = streak, !.gii = gii]]]
    /\ UNCHANGED <<MIC_LEDGER, SIMULATED_GII, utcnow, uuid_issued, blocked_writes>>

\* next((m for m in LEARNING_MODULES if m['id'] == module_id), None): the
\* modules with that id, the first of them is the one found.
find_module(module_id) ==
    SelectSeq(LEARNING_MODULES, LAMBDA m : m.id = module_id)

\* "not isinstance(accuracy, (int, float)) or accuracy < 0 or accuracy > 1"
accuracy_invalid(acc_num, accuracy) ==
    ~acc_num \/ accuracy < 0 \/ accuracy > 1000

\* learning.py:428-437 and 483-492: gii = 0.95 and the reward of the module.
module_reward(module, accuracy, streak) ==
    calculate_mic_reward(module.micReward, accuracy, module.difficulty,
                         streak, 95000)

\* POST /learning/calculate-reward, learning.py:397-443
calculate_reward(module_id, acc_num, accuracy, streak) ==
    LET found == find_module(module_id)
    IN  IF found = <<>> THEN Failure(404, "Module not found")
        ELSE IF accuracy_invalid(acc_num, accuracy)
        THEN Failure(400, "Accuracy must be between 0 and 1")
        ELSE [Response(200, "", NoEntry, 0, 0, 0, <<>>) EXCEPT !.reward =
                 module_reward(found[1], accuracy, streak)]

\* POST /learning/complete, learning.py:446-519: the reward, xp_earned and
\* new_streak.
complete_module(module_id, acc_num, accuracy, streak) ==
    LET found == find_module(module_id)
    IN  IF found = <<>> THEN Failure(404, "Module not found")
        ELSE IF accuracy_invalid(acc_num, accuracy)
        THEN Failure(400, "Accuracy must be between 0 and 1")
        ELSE LET reward == module_reward(found[1], accuracy, streak)
             IN  [Response(200, "", NoEntry, 0, 0, 0, <<>>) EXCEPT !.reward =
                     [reward EXCEPT
                         !.xp_earned = reward.mic_earned * 2,
                         !.new_streak = IF reward.mic_earned > 0
                                        THEN streak + 1 ELSE 0]]

\* A request to a learning route: its arguments and its answer.
LearningReturns(p, op, module_id, acc_num, accuracy, streak, r) ==
    /\ pc[p] = "idle"
    /\ Finish(p, r)
    /\ loc' = [loc EXCEPT ![p] =
                 [NoLoc EXCEPT !.op = op, !.ledger0 = MIC_LEDGER,
                               !.args = [NoArgs EXCEPT
                                   !.module_id = module_id,
                                   !.acc_num = acc_num,
                                   !.accuracy = accuracy,
                                   !.streak = streak, !.gii = 95000]]]

CalculateReward(p, module_id, acc_num, accuracy, streak) ==
    /\ LearningReturns(p, "calculate_reward", module_id, acc_num, accuracy,
                       streak,
                       calculate_reward(module_id, acc_num, accuracy, streak))
    /\ UNCHANGED <<MIC_LEDGER, SIMULATED_GII, utcnow, uuid_issued, blocked_writes>>

\* Mutant: completing a module mints its reward.
CompleteModuleMinting(p, module_id, acc_num, accuracy, streak) ==
    LET r == complete_module(module_id, acc_num, accuracy, streak)
    IN  /\ LearningReturns(p, "complete_module", module_id, acc_num, accuracy,
                           streak, r)
        /\ MIC_LEDGER' =
               IF r.status = 200 /\ Len(MIC_LEDGER) < MaxLedger
               THEN ledger_append(MIC_LEDGER,
                        make_entry(0, "user_000001", 1000 * r.reward.mic_earned,
                                   "LEARN", "learning_module_completion",
                                   EmptyMeta, 100000, 95000, utcnow))
               ELSE MIC_LEDGER
        /\ UNCHANGED <<SIMULATED_GII, utcnow, uuid_issued, blocked_writes>>

CompleteModule(p, module_id, acc_num, accuracy, streak) ==
    /\ LearningReturns(p, "complete_module", module_id, acc_num, accuracy,
                       streak,
                       complete_module(module_id, acc_num, accuracy, streak))
    /\ UNCHANGED <<MIC_LEDGER, SIMULATED_GII, utcnow, uuid_issued, blocked_writes>>

----------------------------------------------------------------------------
(* The specifications *)

\* Writes under way that have not appended yet.
InFlight ==
    {p \in Threads : pc[p] \in {"earn_amount", "w_check", "w_build", "w_append"}}

\* A new write is admitted only while the ledger has room for its entry.
HasRoom == Len(MIC_LEDGER) + Cardinality(InFlight) < MaxLedger

Limits == {1, 2}
Offsets == {0, 1}

DirectWrites(T, users, amounts, reasons) ==
    \E p \in T :
        \/ \E u \in users, a \in amounts, r \in reasons :
               HasRoom /\ CallWriteEntry(p, u, a, r)
        \/ WriteCheck(p)
        \/ WriteBuild(p)
        \/ WriteAppend(p)
        \/ Return(p)

EarnRequests(T, tokens, sources, metas) ==
    \E p \in T :
        \/ \E t \in tokens, s \in sources, m \in metas :
               /\ EarnProceeds(t, s) => HasRoom
               /\ EarnRequest(p, t, s, m)
        \/ EarnAmount(p)
        \/ EarnRespond(p)

Reads(T, users, tokens, limits, offsets) ==
    \E p \in T :
        \/ \E u \in users : GetBalance(p, u) \/ GetTotalEarned(p, u)
        \/ \E u \in users, l \in limits, o \in offsets : ListEvents(p, u, l, o)
        \/ \E t \in tokens : GetWallet(p, t)
        \/ \E t \in tokens, l \in limits, o \in offsets :
               GetEvents(p, t, l, o) \/ GetLedger(p, t, l, o)
        \/ MicHealth(p)
        \/ AdminLedgerStats(p)

GiiChanges(values) == \E g \in values : SetGii(g)

\* One request thread serving, one call at a time, direct write_to_ledger
\* calls and the reads, while the integrity index moves.
Next ==
    \/ DirectWrites({"t1"}, Users, WriteAmounts, WriteReasons)
    \/ Reads({"t1"}, Users, {"", "Bearer alice-token-0001"}, Limits, Offsets)
    \/ GiiChanges(GiiValues)

Spec == Init /\ [][Next]_vars

\* One request thread serving Earn requests.
NextEarn ==
    \/ EarnRequests({"t1"}, Tokens, Sources, Metas)
    \/ \E p \in {"t1"} : WriteCheck(p) \/ WriteBuild(p) \/ WriteAppend(p) \/ Return(p)
    \/ GiiChanges(GiiValues)

SpecEarn == Init /\ [][NextEarn]_vars

\* Two request threads whose write_to_ledger calls interleave step by step.
NextConc ==
    \/ DirectWrites(Threads, Users, {-1000, 1000}, WriteReasons)
    \/ GiiChanges({49996, 95000})

SpecConc == Init /\ [][NextConc]_vars

\* Every operation the component exposes, one call at a time, while the
\* index moves and the clock ticks.
NextAll ==
    \/ DirectWrites({"t1"}, {"user_000001"}, {-1000, 1000}, WriteReasons)
    \/ EarnRequests({"t1"}, {"", "Bearer alice-token-0001"}, {"", "quiz_bonus"},
                    {EmptyMeta})
    \/ Reads({"t1"}, {"user_000001"}, {"", "Bearer alice-token-0001"}, {1}, {0})
    \/ GiiChanges({49996, 95000})
    \/ Tick

SpecAll == Init /\ [][NextAll]_vars

\* Two request threads serving Earn requests of one user.
NextEarnConc ==
    \/ EarnRequests(Threads, {"Bearer alice-token-0001"},
                    {"learning_module_completion", "quiz_bonus"},
                    {Meta(TRUE, TRUE, -1000, FALSE, 0)})
    \/ \E p \in Threads : WriteCheck(p) \/ WriteBuild(p) \/ WriteAppend(p) \/ Return(p)

SpecEarnConc == Init /\ [][NextEarnConc]_vars

\* Arguments of calculate_mic_reward: on and next to every threshold.
BaseRewards == {1, 50, 100}
Accuracies == {0, 690, 699, 700, 850, 999, 1000}
Difficulties == {"beginner", "intermediate", "advanced", "expert"}
Streaks == {0, 2, 3, 7, 10, 30}
RewardGiis == {49999, 50000, 55000, 59999, 60000, 65000, 74999, 75000, 80000,
               89999, 90000, 91000, 95000}

RewardCalls(T, bases, accuracies, difficulties, streaks, giis) ==
    \E p \in T, b \in bases, a \in accuracies, d \in difficulties,
       s \in streaks, g \in giis :
        CallCalculateMicReward(p, b, a, d, s, g)

\* Direct calls of calculate_mic_reward, one at a time.
NextReward ==
    \/ RewardCalls({"t1"}, BaseRewards, Accuracies, Difficulties, Streaks,
                   RewardGiis)
    \/ Return("t1")

SpecReward == Init /\ [][NextReward]_vars

\* Arguments of the learning routes: "" is a request without module_id.
ModuleIds == {"", "constitutional-ai-101", "drift-suppression"}

LearningRequests(T, modules, accuracies, streaks) ==
    \E p \in T, m \in modules, n \in BOOLEAN, a \in accuracies, s \in streaks :
        \/ CalculateReward(p, m, n, a, s)
        \/ CompleteModule(p, m, n, a, s)

\* The routes of wallet.py and learning.py, one request at a time, while
\* the index moves.
NextApi ==
    \/ EarnRequests({"t1"}, {"", "Bearer alice-token-0001"}, {"", "quiz_bonus"},
                    {EmptyMeta})
    \/ \E p \in {"t1"} : WriteCheck(p) \/ WriteBuild(p) \/ WriteAppend(p) \/ Return(p)
    \/ Reads({"t1"}, {"user_000001"}, {"", "Bearer alice-token-0001"}, {1}, {0})
    \/ LearningRequests({"t1"}, ModuleIds, {690, 1000, 1100}, {0, 7})
    \/ GiiChanges({49996, 95000})

SpecApi == Init /\ [][NextApi]_vars

\* Sources of every prefix earn_mic tests, in and out of source_rewards
\* ("relearning_bonus" holds a prefix without starting with it).
EarnSources ==
    {"learning_module_completion", "learnings_digest", "oaa_tutor_question",
     "reflection_spark", "civic_radar_action_taken", "shield_checklist_item",
     "quiz_bonus", "relearning_bonus"}

\* One request thread serving authenticated Earn requests of every kind of
\* source.
NextEarnSources ==
    \/ EarnRequests({"t1"}, {"Bearer alice-token-0001"}, EarnSources, {EmptyMeta})
    \/ \E p \in {"t1"} : WriteCheck(p) \/ WriteBuild(p) \/ WriteAppend(p) \/ Return(p)

SpecEarnSources == Init /\ [][NextEarnSources]_vars

\* One request thread serving authenticated Earn requests with and without
\* a caller-supplied amount, while the index moves between the healthy
\* band and the band of multiplier 0.
NextEarnAmounts ==
    \/ EarnRequests({"t1"}, {"Bearer alice-token-0001"},
                    {"learning_module_completion", "quiz_bonus"},
                    {EmptyMeta, Meta(TRUE, TRUE, 1234, FALSE, 0)})
    \/ \E p \in {"t1"} : WriteCheck(p) \/ WriteBuild(p) \/ WriteAppend(p) \/ Return(p)
    \/ GiiChanges({55000, 95000})

SpecEarnAmounts == Init /\ [][NextEarnAmounts]_vars

\* Direct write_to_ledger calls while the index moves between healthy and
\* 0.40, well below halt, also between the steps of one call.
NextRace ==
    \/ DirectWrites({"t1"}, Users, {-1000, 1000}, WriteReasons)
    \/ GiiChanges({40000, 95000})

SpecRace == Init /\ [][NextRace]_vars

\* Query parameters of the paged routes: negative, small, above the caps.
BulkLimits == {-1, 1, 150}
BulkOffsets == {-1, 0}

\* One user's ledger grown entry by entry past the cap of GET /mic/events,
\* and the two paged routes queried on it.
NextBulk ==
    \/ \E p \in {"t1"} :
           \/ /\ Len(MIC_LEDGER) + Cardinality(InFlight) < MaxBulkLedger
              /\ CallWriteEntry(p, "user_000001", 1000, "CORRECTION")
           \/ WriteCheck(p)
           \/ WriteBuild(p)
           \/ WriteAppend(p)
           \/ Return(p)
    \/ \E p \in {"t1"}, l \in BulkLimits, o \in BulkOffsets :
           \/ GetEvents(p, "Bearer alice-token-0001", l, o)
           \/ GetLedger(p, "Bearer alice-token-0001", l, o)

SpecBulk == Init /\ [][NextBulk]_vars

\* The clock of the paging runs: it reaches the next whole second, whose
\* created_at is above every earlier one.
TickPaging ==
    /\ utcnow < MaxPagedClock
    /\ utcnow' = utcnow + 1
    /\ UNCHANGED <<MIC_LEDGER, SIMULATED_GII, uuid_issued, pc, loc, resp,
                   blocked_writes>>

\* One thread writes entries of a user while a client on the other pages
\* through that user's events, and the clock ticks.
NextPaging ==
    \/ \E p \in {"t1"} :
           \/ /\ Len(MIC_LEDGER) + Cardinality(InFlight) < MaxPagedLedger
              /\ CallWriteEntry(p, "user_000001", 1000, "CORRECTION")
           \/ WriteCheck(p)
           \/ WriteBuild(p)
           \/ WriteAppend(p)
           \/ Return(p)
    \/ \E p \in {"t2"} :
           \/ \E l \in Limits : PageFirst(p, "user_000001", l)
           \/ PageNext(p)
           \/ Return(p)
    \/ TickPaging

SpecPaging == Init /\ [][NextPaging]_vars

\* Direct write_to_ledger calls whose reason is any string.
NextReasons ==
    \/ DirectWrites({"t1"}, Users, {-1000, 1000}, AnyReasons)
    \/ GiiChanges({49996, 95000})

SpecReasons == Init /\ [][NextReasons]_vars

----------------------------------------------------------------------------
(* Vocabulary of the properties *)

halt == gii_threshold_halt

DoneWrite(p) == pc[p] = "done" /\ loc[p].op = "write_entry"
DoneEarn(p) == pc[p] = "done" /\ loc[p].op = "earn"

\* The direct call returned its entry / raised the circuit-breaker error.
Succeeded(p) == resp[p].status = 1
Blocked(p) == resp[p] = Failure(-1, "ValueError")

InLedger(e) == \E i \in DOMAIN MIC_LEDGER : MIC_LEDGER[i] = e

IsPrefix(s, t) == Len(s) <= Len(t) /\ SubSeq(t, 1, Len(s)) = s

\* The indices of the entries of a user.
EntriesOf(ledger, u) == {i \in DOMAIN ledger : ledger[i].user_id = u}

RECURSIVE SumAt(_, _)
\* The sum of amount over the entries of ledger at the indices idx.
SumAt(ledger, idx) ==
    IF idx = {} THEN 0
    ELSE LET i == CHOOSE i \in idx : TRUE
         IN  ledger[i].amount + SumAt(ledger, idx \ {i})

BalanceIn(ledger, u) == SumAt(ledger, EntriesOf(ledger, u))

EarnedIn(ledger, u) ==
    SumAt(ledger, {i \in EntriesOf(ledger, u) : ledger[i].amount > 0})

\* A user that never wrote.
Stranger == "user_999999"

----------------------------------------------------------------------------
(* Properties *)

\* C1: in every reachable state, after any sequence of successful and
\* blocked write_entry calls, get_balance(u) is the sum of amount over
\* exactly the entries whose user_id is u, and it is 0 (not an error) for a
\* user with no entries; the get_balance call returns that sum.
C1_BalanceDerivation ==
    /\ \A u \in Users \cup {Stranger} :
           /\ get_user_balance(u) = BalanceIn(MIC_LEDGER, u)
           /\ EntriesOf(MIC_LEDGER, u) = {} => get_user_balance(u) = 0
    /\ \A p \in Threads :
           pc[p] = "done" /\ loc[p].op = "get_balance" =>
               /\ resp[p].status = 1
               /\ resp[p].balance = BalanceIn(loc[p].ledger0, loc[p].user_id)

\* C1 witness: after a blocked write, get_balance has returned a non-zero
\* balance from a ledger that holds entries of both users.
C1_Witness ==
    \E p \in Threads :
        /\ pc[p] = "done" /\ loc[p].op = "get_balance"
        /\ resp[p].balance # 0
        /\ blocked_writes
        /\ \A u \in Users : EntriesOf(MIC_LEDGER, u) # {}
        /\ BalanceIn(MIC_LEDGER, "user_000001") # BalanceIn(MIC_LEDGER, "user_000002")

\* C2: the ledger is append-only: across every step of every operation
\* (write_entry, the Earn API, get_balance, get_total_earned, list_events and
\* the wallet, events, ledger, health and admin-stats reads) the ledger
\* before the step is a prefix of the ledger after it.
C2_AppendOnly == [][IsPrefix(MIC_LEDGER, MIC_LEDGER')]_vars

\* C2 witness: a second entry was appended after the first, one by a direct
\* write and one by the Earn API, and a ledger read has run since.
C2_Witness ==
    /\ Len(MIC_LEDGER) = 2
    /\ \E i, j \in DOMAIN MIC_LEDGER :
           /\ MIC_LEDGER[i].source = "manual_adjustment"
           /\ MIC_LEDGER[j].source = "quiz_bonus"
    /\ MIC_LEDGER[1].created_at # MIC_LEDGER[2].created_at
    /\ \E p \in Threads :
           pc[p] = "done" /\ loc[p].op = "get_ledger" /\ resp[p].count = 2

\* C3: a write_entry whose amount is positive, made while the index is below
\* halt, fails with the circuit-breaker error and leaves the ledger as it
\* was; with the same index a write_entry whose amount is non-positive
\* succeeds and appends exactly one entry, the one it returns.
C3_BreakerGating ==
    \A p \in Threads :
        DoneWrite(p) /\ loc[p].chk_gii < halt =>
            IF loc[p].amount > 0
            THEN /\ Blocked(p)
                 /\ MIC_LEDGER = loc[p].ledger0
                 /\ loc[p].appended = 0
            ELSE /\ Succeeded(p)
                 /\ MIC_LEDGER = Append(loc[p].ledger0, resp[p].entry)
                 /\ loc[p].appended = 1

\* C3 witness: with the index below halt, a positive write was refused and
\* then a non-positive one was appended to a ledger that was not empty.
C3_Witness ==
    \E p \in Threads :
        /\ DoneWrite(p) /\ loc[p].chk_gii < halt
        /\ loc[p].amount <= 0 /\ Succeeded(p)
        /\ loc[p].ledger0 # <<>>
        /\ blocked_writes

\* C4: a successful write_entry for user u changes get_balance(u) by exactly
\* the amount stored in the new entry and leaves get_balance(v) and
\* get_total_earned(v) of every other user v as they were; a write_entry that
\* fails changes no balance.
C4_BalanceFrame ==
    \A p \in Threads :
        DoneWrite(p) =>
            LET u == loc[p].user_id
                before == loc[p].ledger0
            IN  IF Succeeded(p)
                THEN /\ get_user_balance(u)
                          = BalanceIn(before, u) + resp[p].entry.amount
                     /\ \A v \in (Users \cup {Stranger}) \ {u} :
                            /\ get_user_balance(v) = BalanceIn(before, v)
                            /\ get_user_total_earned(v) = EarnedIn(before, v)
                ELSE \A v \in Users \cup {Stranger} :
                         get_user_balance(v) = BalanceIn(before, v)

\* C4 witness: a write of a non-zero amount succeeded for one user while
\* the other user already had a non-zero balance and positive earnings.
C4_Witness ==
    \E p \in Threads :
        /\ DoneWrite(p) /\ Succeeded(p)
        /\ resp[p].entry.amount # 0
        /\ \E v \in Users \ {loc[p].user_id} :
               /\ BalanceIn(loc[p].ledger0, v) # 0
               /\ EarnedIn(loc[p].ledger0, v) > 0

\* C5: every failure is detected before any entry is appended: an Earn
\* request that does not end in success (401 for no or a too short bearer
\* token, 400 for a missing source, 503 for the circuit breaker, or an
\* amount that makes write_entry raise) leaves the ledger exactly as it was,
\* and an entry is in the ledger only once it is fully built and appended.
C5_FailBeforeAppend ==
    /\ \A p \in Threads :
           DoneEarn(p) /\ resp[p].status # 201 =>
               /\ resp[p].status \in {400, 401, 500, 503}
               /\ MIC_LEDGER = loc[p].ledger0
               /\ loc[p].appended = 0
    /\ \A p \in Threads :
           pc[p] \in {"earn_amount", "w_check", "w_build", "w_append"} =>
               /\ MIC_LEDGER = loc[p].ledger0
               /\ ~InLedger(loc[p].entry)
    /\ \A i \in DOMAIN MIC_LEDGER :
           /\ MIC_LEDGER[i].id \in 1..uuid_issued
           /\ MIC_LEDGER[i].user_id # ""
           /\ MIC_LEDGER[i].source # ""
           /\ MIC_LEDGER[i].reason \in MICReason

\* C5 witness: write_to_ledger raised inside an Earn request (the index fell
\* below halt after earn_mic's own check) and the ledger, not empty, is as
\* it was.
C5_Witness ==
    \E p \in Threads :
        /\ DoneEarn(p)
        /\ resp[p] = Failure(503, "Minting failed")
        /\ loc[p].ledger0 # <<>>

\* C5, the other failures are reached too: 401, 400, the 503 of earn_mic's
\* own check, and the TypeError of a non-numeric amount.
C5_FailuresSeen(status, error) ==
    \E p \in Threads : DoneEarn(p) /\ resp[p] = Failure(status, error)

\* C6: under any interleaving of concurrent write_entry calls no entry is
\* lost or duplicated: each step grows the ledger by exactly one entry per
\* call that returns in it and keeps what was there, every returned entry is
\* in the ledger, and the ids in the ledger are pairwise distinct.
C6_State ==
    /\ \A p \in Threads :
           DoneWrite(p) /\ Succeeded(p) =>
               InLedger(resp[p].entry) /\ loc[p].appended = 1
    /\ \A p \in Threads :
           DoneWrite(p) /\ ~Succeeded(p) => loc[p].appended = 0
    /\ \A i, j \in DOMAIN MIC_LEDGER :
           i # j => MIC_LEDGER[i].id # MIC_LEDGER[j].id

C6_Step ==
    LET returning == {p \in Threads :
                         pc[p] # "done" /\ pc'[p] = "done" /\ resp'[p].status = 1}
    IN  /\ Len(MIC_LEDGER') = Len(MIC_LEDGER) + Cardinality(returning)
        /\ IsPrefix(MIC_LEDGER, MIC_LEDGER')

C6_NoLostOrDuplicateEntry == [](C6_State) /\ [][C6_Step]_vars

\* C6 witness: two calls that both began on the empty ledger, so that they
\* ran at the same time, have both returned, and the ledger holds both
\* entries.
C6_Witness ==
    /\ \A p \in Threads :
           DoneWrite(p) /\ Succeeded(p) /\ loc[p].ledger0 = <<>>
    /\ Len(MIC_LEDGER) = 2

\* C7: the circuit breaker is not sticky: a positive write succeeds if and
\* only if the index read at that write is not below halt, whether or not
\* earlier writes were blocked or succeeded.
C7_NotSticky ==
    \A p \in Threads :
        DoneWrite(p) /\ loc[p].amount > 0 =>
            /\ Succeeded(p) <=> ~(loc[p].chk_gii < halt)
            /\ ~Succeeded(p) => Blocked(p)

\* C7 witness: after a write was blocked, a positive write has succeeded on
\* a ledger that already held an entry.
C7_Witness ==
    \E p \in Threads :
        /\ DoneWrite(p) /\ loc[p].amount > 0 /\ Succeeded(p)
        /\ blocked_writes
        /\ loc[p].ledger0 # <<>>

\* C7 witness, the other direction: a positive write is blocked although
\* an earlier positive write succeeded.
C7_BlockedAfterSuccess ==
    \E p \in Threads :
        /\ DoneWrite(p) /\ loc[p].amount > 0 /\ Blocked(p)
        /\ \E i \in DOMAIN MIC_LEDGER : MIC_LEDGER[i].amount > 0

\* C8 as stated: the gii of the entry a write returns equals the global
\* integrity index that the write read.
C8_GiiEqualsIndex ==
    \A p \in Threads :
        DoneWrite(p) /\ Succeeded(p) => resp[p].entry.gii = loc[p].gii

\* The value is x rounded to 4 decimal places: a multiple of 0.0001 at most
\* 0.00005 away.
Rounded4(value, x) ==
    /\ value % 10 = 0
    /\ value - x <= 5
    /\ x - value <= 5

C8_State ==
    \A p \in Threads :
        DoneWrite(p) /\ Succeeded(p) =>
            /\ Rounded4(resp[p].entry.gii, loc[p].gii)
            /\ Rounded4(resp[p].entry.integrity_score, loc[p].integrity_score)

C8_Step ==
    \A i \in DOMAIN MIC_LEDGER :
        /\ i \in DOMAIN MIC_LEDGER'
        /\ MIC_LEDGER'[i].gii = MIC_LEDGER[i].gii
        /\ MIC_LEDGER'[i].integrity_score = MIC_LEDGER[i].integrity_score

\* C8, amended: the gii and integrity_score of an entry are snapshots: the
\* entry's gii is the global integrity index the write read, rounded to 4
\* decimal places (its integrity_score the caller's score, rounded alike),
\* and no later change of the index and no later write changes the gii or
\* integrity_score of an earlier entry.
C8_Snapshots == [](C8_State) /\ [][C8_Step]_vars

\* C8 witness: two entries written under different index values, the index
\* having moved since, the second written while the index was 0.49996.
C8_Witness ==
    /\ Len(MIC_LEDGER) = 2
    /\ MIC_LEDGER[1].gii = 95000
    /\ MIC_LEDGER[2].gii = 50000
    /\ \E p \in Threads :
           DoneWrite(p) /\ Succeeded(p) /\ loc[p].gii = 49996
    /\ SIMULATED_GII = 95000

\* C9 as stated: a positive write_entry is blocked whenever the index is at
\* or below halt, the halt value 0.50 included.
C9_BlockedAtOrBelowHalt ==
    \A p \in Threads :
        DoneWrite(p) /\ loc[p].amount > 0 /\ loc[p].chk_gii <= halt => Blocked(p)

\* C9, amended: a positive write_entry is blocked whenever the index is
\* below halt; with the index exactly at the halt value 0.50 it is not
\* blocked, its entry is appended.
C9_BlockedBelowHalt ==
    \A p \in Threads :
        DoneWrite(p) /\ loc[p].amount > 0 =>
            /\ loc[p].chk_gii < halt => Blocked(p)
            /\ loc[p].chk_gii = halt =>
                   Succeeded(p) /\ InLedger(resp[p].entry)

\* C9 witness: a positive write made with the index exactly at halt has
\* been appended.
C9_Witness ==
    \E p \in Threads :
        /\ DoneWrite(p) /\ loc[p].amount > 0
        /\ loc[p].chk_gii = halt
        /\ Succeeded(p) /\ InLedger(resp[p].entry)

\* C10: while the index is below halt, an authenticated Earn request with a
\* source whose resolved amount is a non-positive number is written to the
\* ledger and answered 201 with the created entry.
C10_EarnDeductsDuringHalt ==
    \A p \in Threads :
        (/\ DoneEarn(p)
         /\ loc[p].user_id # "" /\ loc[p].source # ""
         /\ loc[p].chk_gii < halt
         /\ LET a == earn_amount(loc[p].source, loc[p].meta, loc[p].chk_gii)
            IN  a.num /\ a.v <= 0)
        => /\ resp[p].status = 201
           /\ InLedger(resp[p].entry)
           /\ resp[p].entry.user_id = loc[p].user_id

----------------------------------------------------------------------------
(* C11 *)

\* C11: a write_entry whose reason is not one of LEARN, EARN, CORRECTION,
\* BONUS, REFLECTION, CIVIC is rejected before any ledger mutation: the
\* call raises, no entry is appended and the ledger is as it was.
C11_InvalidReasonRejected ==
    \A p \in Threads :
        DoneWrite(p) /\ loc[p].reason \notin MICReason =>
            /\ resp[p].status = -1
            /\ loc[p].appended = 0
            /\ MIC_LEDGER = loc[p].ledger0

----------------------------------------------------------------------------
(* C12 *)

\* The entries that other calls appended for user u since ledger0.
OthersSince(ledger0, u, e) ==
    {i \in EntriesOf(MIC_LEDGER, u) : i > Len(ledger0) /\ MIC_LEDGER[i] # e}

\* C12: a successful Earn request returns the created entry, a ledger_proof
\* that references the id of that entry, and a new_balance that is the
\* user's derived balance in a state of the ledger that holds the new
\* entry; when no other write for that user came in between, new_balance
\* is the balance before the request plus the amount of the entry.
C12_EarnResponse ==
    \A p \in Threads :
        DoneEarn(p) /\ resp[p].status = 201 =>
            LET e == resp[p].entry
                u == loc[p].user_id
            IN  /\ e = loc[p].entry /\ InLedger(e)
                /\ resp[p].ledger_proof = <<"ledger:", e.id>>
                /\ \E k \in 1..Len(MIC_LEDGER) :
                       /\ \E i \in 1..k : MIC_LEDGER[i] = e
                       /\ resp[p].balance = BalanceIn(SubSeq(MIC_LEDGER, 1, k), u)
                /\ OthersSince(loc[p].ledger0, u, e) = {} =>
                       resp[p].balance = BalanceIn(loc[p].ledger0, u) + e.amount

\* C12 witness: an Earn request answered 201 on a ledger that already held
\* an entry of the user, with no other write in between.
C12_Witness ==
    \E p \in Threads :
        /\ DoneEarn(p) /\ resp[p].status = 201
        /\ Len(loc[p].ledger0) = 1
        /\ loc[p].ledger0[1].user_id = loc[p].user_id
        /\ OthersSince(loc[p].ledger0, loc[p].user_id, resp[p].entry) = {}
        /\ resp[p].balance = loc[p].ledger0[1].amount + resp[p].entry.amount
        /\ resp[p].entry.amount # 0

\* An Earn request answered 201 whose new_balance also counts an entry
\* that another request appended for the same user in between.
C12_Interleaved ==
    \E p \in Threads :
        /\ DoneEarn(p) /\ resp[p].status = 201
        /\ loc[p].ledger0 = <<>>
        /\ Len(MIC_LEDGER) = 2
        /\ resp[p].balance = MIC_LEDGER[1].amount + MIC_LEDGER[2].amount
        /\ resp[p].balance # resp[p].entry.amount

----------------------------------------------------------------------------
(* C13 *)

\* Operations that only read.
ReadOps ==
    {"get_balance", "get_total_earned", "list_events", "get_wallet",
     "get_events", "get_ledger", "mic_health", "admin_ledger_stats",
     "calculate_reward", "complete_module", "calculate_mic_reward"}

C13_State ==
    \A p \in Threads :
        /\ pc[p] = "done" /\ loc[p].op \in ReadOps =>
               MIC_LEDGER = loc[p].ledger0
        /\ DoneEarn(p) =>
               IF resp[p].status = 201
               THEN /\ loc[p].appended = 1
                    /\ MIC_LEDGER = Append(loc[p].ledger0, resp[p].entry)
               ELSE /\ loc[p].appended = 0
                    /\ MIC_LEDGER = loc[p].ledger0

C13_Step ==
    MIC_LEDGER' # MIC_LEDGER =>
        \E p \in Threads :
            /\ loc[p].op = "earn" /\ pc[p] = "w_append"
            /\ MIC_LEDGER' = Append(MIC_LEDGER, loc[p].entry)

\* C13: entries are created only by the earn operation, exactly one per
\* successful request: the wallet, events, ledger-history, health and
\* admin-stats reads and the learning calculate-reward and complete routes
\* never add to the ledger or change it.
C13_OnlyEarnCreates == [](C13_State) /\ [][C13_Step]_vars

\* C13 witness: a module was completed with a reward while the ledger held
\* the entry of an earlier Earn request, and the ledger is as it was.
C13_Witness ==
    \E p \in Threads :
        /\ pc[p] = "done" /\ loc[p].op = "complete_module"
        /\ resp[p].status = 200 /\ resp[p].reward.mic_earned > 0
        /\ Len(MIC_LEDGER) = 1
        /\ MIC_LEDGER = loc[p].ledger0

----------------------------------------------------------------------------
(* C14 *)

RECURSIVE PagesFrom(_, _, _, _)
\* The pages list_events(u, limit, k * limit), ..., list_events(u, limit,
\* n * limit) one after the other.
PagesFrom(u, limit, k, n) ==
    IF k > n THEN <<>>
    ELSE get_user_events(u, limit, k * limit) \o PagesFrom(u, limit, k + 1, n)

\* C14: with no writes in between, limit >= 1 and offset >= 0, the pages
\* list_events(u, limit, k * limit) for k = 0, 1, 2, ... hold at most limit
\* entries each, are pairwise disjoint and, one after the other, are the
\* list of all entries of u with the most recent first (created_at never
\* increasing).
C14_Pagination ==
    \A u \in Users, limit \in 1..MaxLedger :
        LET n == Len(MIC_LEDGER)
            all == PagesFrom(u, limit, 0, n)
            mine == user_entries(MIC_LEDGER, u)
        IN  /\ \A k \in 0..n : Len(get_user_events(u, limit, k * limit)) <= limit
            /\ Len(all) = Len(mine)
            /\ \A i \in DOMAIN mine : \E j \in DOMAIN all : all[j] = mine[i]
            /\ \A i, j \in DOMAIN all :
                   i < j => all[i].created_at >= all[j].created_at

----------------------------------------------------------------------------
(* C15 *)

C15_State ==
    /\ \A u \in Users \cup {Stranger} :
           /\ get_user_total_earned(u) = EarnedIn(MIC_LEDGER, u)
           /\ get_user_total_earned(u) >= get_user_balance(u)
    /\ \A p \in Threads :
           /\ pc[p] = "done" /\ loc[p].op = "get_total_earned" =>
                  resp[p].total_earned = EarnedIn(loc[p].ledger0, loc[p].user_id)
           /\ pc[p] = "done" /\ loc[p].op = "get_wallet"
                  /\ resp[p].status = 200 =>
                  resp[p].total_earned = EarnedIn(loc[p].ledger0, loc[p].user_id)
           /\ DoneWrite(p) /\ Succeeded(p) /\ loc[p].amount <= 0 =>
                  EarnedIn(MIC_LEDGER, loc[p].user_id)
                      = EarnedIn(loc[p].ledger0, loc[p].user_id)

C15_Step ==
    \A u \in Users :
        sum_user_earned(MIC_LEDGER', u, 1) >= sum_user_earned(MIC_LEDGER, u, 1)

\* C15: in every reachable state get_total_earned(u) is the sum of amount
\* over the entries of u with amount > 0; a write with a non-positive
\* amount leaves it unchanged, so it never decreases and is never smaller
\* than get_balance(u).
C15_TotalEarned == [](C15_State) /\ [][C15_Step]_vars

\* C15 witness: a correction has just been written for a user who had
\* earned before; the total earned is what it was and above the balance.
C15_Witness ==
    \E p \in Threads :
        /\ DoneWrite(p) /\ Succeeded(p) /\ loc[p].amount < 0
        /\ EarnedIn(loc[p].ledger0, loc[p].user_id) > 0
        /\ get_user_total_earned(loc[p].user_id)
               = EarnedIn(loc[p].ledger0, loc[p].user_id)
        /\ get_user_total_earned(loc[p].user_id) > get_user_balance(loc[p].user_id)

----------------------------------------------------------------------------
(* The reward calculation: C16 to C20 *)

DoneReward(p) == pc[p] = "done" /\ loc[p].op = "calculate_mic_reward"

\* The tables of the reward formula, written out: multipliers in tenths,
\* the streak bonus in hundredths.
StairGii(gii) ==
    CASE gii >= 90000 -> 10
      [] gii >= 75000 /\ gii < 90000 -> 8
      [] gii >= 60000 /\ gii < 75000 -> 5
      [] OTHER -> 0

TableDifficulty(difficulty) ==
    CASE difficulty = "intermediate" -> 12
      [] difficulty = "advanced" -> 15
      [] OTHER -> 10

TableStreak(streak) ==
    CASE streak >= 30 -> 25
      [] streak >= 7 /\ streak < 30 -> 10
      [] streak >= 3 /\ streak < 7 -> 5
      [] OTHER -> 0

\* v is x / RewardUnit rounded to a nearest integer.
Nearest(v, x) ==
    /\ 2 * (v * RewardUnit - x) <= RewardUnit
    /\ 2 * (x - v * RewardUnit) <= RewardUnit

\* C16: for gii not below halt and accuracy at or above 0.70 the total is
\* round(base_reward x accuracy x difficulty_multiplier x gii_multiplier
\* + perfect_bonus + streak_bonus), the perfect bonus being 10% of
\* base_reward when accuracy is exactly 1.0 and 0 for any lower accuracy;
\* base_reward 100, accuracy 1.0, advanced, streak 7, gii 0.95 gives
\* 150 + 10 + 10 = 170.
C16_RewardFormula ==
    \A p \in Threads :
        DoneReward(p) /\ loc[p].args.gii >= 50000
                      /\ loc[p].args.accuracy >= 700 =>
            LET a == loc[p].args
                r == resp[p].reward
                base == a.base_reward * a.accuracy
                        * TableDifficulty(a.difficulty) * StairGii(a.gii)
                perfect == IF a.accuracy = 1000
                           THEN a.base_reward * 10 * 1000 ELSE 0
                streak == a.base_reward * TableStreak(a.streak) * 1000
            IN  /\ ~r.circuit_breaker_active /\ ~r.accuracy_too_low
                /\ Nearest(r.mic_earned, base + perfect + streak)
                /\ Nearest(r.perfect_bonus, perfect)
                /\ a.accuracy < 1000 => r.perfect_bonus = 0
                /\ (a.base_reward = 100 /\ a.accuracy = 1000
                    /\ a.difficulty = "advanced" /\ a.streak = 7
                    /\ a.gii = 95000) =>
                       /\ r.base = 150 /\ r.perfect_bonus = 10
                       /\ r.streak_bonus = 10 /\ r.mic_earned = 170

\* C16 witness: the end-to-end scenario has been computed and gave 170.
C16_Witness ==
    \E p \in Threads :
        /\ DoneReward(p)
        /\ loc[p].args = [NoArgs EXCEPT !.base_reward = 100, !.accuracy = 1000,
                              !.difficulty = "advanced", !.streak = 7,
                              !.gii = 95000]
        /\ resp[p].reward.mic_earned = 170

\* An accuracy of 0.999 has been rewarded without a perfect bonus.
C16_NearPerfect ==
    \E p \in Threads :
        /\ DoneReward(p) /\ loc[p].args.accuracy = 999
        /\ loc[p].args.base_reward = 100 /\ loc[p].args.gii = 95000
        /\ resp[p].reward.mic_earned > 0 /\ resp[p].reward.perfect_bonus = 0

\* C17: the gii multiplier is a monotonic staircase: its values are 1.0,
\* 0.8, 0.5 and 0 only, it never decreases as gii increases and is constant
\* between breakpoints; it is 1.0 at 0.91, 0.8 at 0.80, 0.5 at 0.65 and 0
\* at 0.55, in calculate_mic_reward and in calculate_gii_multiplier alike.
C17_Staircase ==
    \A p \in Threads :
        DoneReward(p) /\ resp[p].reward.has_breakdown =>
            LET g == loc[p].args.gii
                m == resp[p].reward.mult_gii
            IN  /\ m \in {10, 8, 5, 0}
                /\ m = StairGii(g)
                /\ m = calculate_gii_multiplier(g)
                /\ \A lower \in RewardGiis :
                       lower <= g => calculate_gii_multiplier(lower) <= m
                /\ g = 91000 => m = 10
                /\ g = 80000 => m = 8
                /\ g = 65000 => m = 5
                /\ g = 55000 => m = 0

\* C17 witness: a reward computed at gii 0.65, between two breakpoints,
\* with multiplier 0.5.
C17_Witness ==
    \E p \in Threads :
        /\ DoneReward(p) /\ resp[p].reward.has_breakdown
        /\ loc[p].args.gii = 65000
        /\ resp[p].reward.mult_gii = 5

\* C18: whenever the gii multiplier is 0 without the circuit breaker being
\* active (gii at or above halt, in the zero-multiplier band), the reward
\* is 0 for every base_reward, accuracy, difficulty and streak, with
\* circuit_breaker_active false.
C18_ZeroBandPaysNothing ==
    \A p \in Threads :
        DoneReward(p) /\ loc[p].args.gii >= 50000
                      /\ StairGii(loc[p].args.gii) = 0 =>
            /\ resp[p].reward.mic_earned = 0
            /\ ~resp[p].reward.circuit_breaker_active

\* C19 as stated: the multiplier is zero for every gii at or below the
\* critical threshold 0.60 down to halt, 0.60 itself included.
C19_ZeroAtOrBelowCritical ==
    \A p \in Threads :
        DoneReward(p) /\ resp[p].reward.has_breakdown
                      /\ loc[p].args.gii <= 60000 =>
            resp[p].reward.mult_gii = 0

\* C19, amended: the multiplier is zero for every gii below the critical
\* threshold 0.60 down to halt; at exactly 0.60 it is 0.5, the multiplier
\* of every gii from critical up to, not including, warning.
C19_ZeroBelowCritical ==
    \A p \in Threads :
        DoneReward(p) /\ resp[p].reward.has_breakdown =>
            LET g == loc[p].args.gii
                m == resp[p].reward.mult_gii
            IN  /\ g < 60000 => m = 0 /\ calculate_gii_multiplier(g) = 0
                /\ g = 60000 => m = 5 /\ calculate_gii_multiplier(g) = 5
                /\ m = 5 <=> (g >= 60000 /\ g < 75000)

\* C19 witness: a reward computed at gii exactly 0.60 with multiplier 0.5.
C19_Witness ==
    \E p \in Threads :
        /\ DoneReward(p) /\ resp[p].reward.has_breakdown
        /\ loc[p].args.gii = 60000
        /\ resp[p].reward.mult_gii = 5
        /\ resp[p].reward.mic_earned > 0

\* C20: the minimum accuracy is inclusive: with gii in the healthy band
\* and base_reward >= 1, every accuracy >= 0.70, 0.70 itself included,
\* gives a non-zero reward, and every accuracy < 0.70 gives mic_earned = 0
\* with accuracy_too_low.
C20_AccuracyThreshold ==
    \A p \in Threads :
        DoneReward(p) /\ loc[p].args.gii >= 90000
                      /\ loc[p].args.base_reward >= 1 =>
            IF loc[p].args.accuracy >= 700
            THEN /\ resp[p].reward.mic_earned > 0
                 /\ ~resp[p].reward.accuracy_too_low
            ELSE /\ resp[p].reward.mic_earned = 0
                 /\ resp[p].reward.accuracy_too_low

\* C20 witness: accuracy exactly 0.70 on the smallest base reward, with no
\* bonus, has earned a reward.
C20_Witness ==
    \E p \in Threads :
        /\ DoneReward(p)
        /\ loc[p].args = [NoArgs EXCEPT !.base_reward = 1, !.accuracy = 700,
                              !.difficulty = "beginner", !.streak = 0,
                              !.gii = 95000]
        /\ resp[p].reward.mic_earned = 1

\* An accuracy of 0.699 has been refused as too low.
C20_TooLow ==
    \E p \in Threads :
        /\ DoneReward(p) /\ loc[p].args.gii = 95000
        /\ loc[p].args.accuracy = 699 /\ loc[p].args.base_reward = 100
        /\ resp[p].reward.mic_earned = 0 /\ resp[p].reward.accuracy_too_low

----------------------------------------------------------------------------
(* The reward calculation: C21, C22, C28, C29 *)

\* The thresholds among 3, 7, 30 that a streak meets or exceeds.
TiersMet(streak) == {d \in {3, 7, 30} : streak >= d}

\* The percentage of one tier, in hundredths.
TierPct(d) == CASE d = 3 -> 5 [] d = 7 -> 10 [] d = 30 -> 25

\* C21: the streak bonus is non-cumulative: it is the bonus of the single
\* largest threshold among 3, 7, 30 that the streak meets or exceeds, as a
\* percentage of base_reward (5%, 10%, 25%), never the sum of several tiers
\* (streak 10 earns the 7-day 10% only), and 0 for a streak below 3.
C21_StreakNonCumulative ==
    \A p \in Threads :
        DoneReward(p) /\ resp[p].reward.has_breakdown =>
            LET a == loc[p].args
                r == resp[p].reward
                met == TiersMet(a.streak)
                pct == IF met = {} THEN 0
                       ELSE TierPct(CHOOSE d \in met : \A x \in met : x <= d)
                rest == a.base_reward * a.accuracy
                        * TableDifficulty(a.difficulty) * StairGii(a.gii)
                        + (IF a.accuracy = 1000 THEN a.base_reward * 10000 ELSE 0)
            IN  /\ Nearest(r.streak_bonus, a.base_reward * pct * 1000)
                /\ Nearest(r.mic_earned, rest + a.base_reward * pct * 1000)
                /\ a.streak < 3 => r.streak_bonus = 0
                /\ a.streak = 10 /\ a.base_reward = 100 => r.streak_bonus = 10

\* C21 witness: a streak of 10, past both the 3-day and the 7-day tier,
\* has earned 10 on a base reward of 100.
C21_Witness ==
    \E p \in Threads :
        /\ DoneReward(p) /\ resp[p].reward.has_breakdown
        /\ loc[p].args.streak = 10 /\ loc[p].args.base_reward = 100
        /\ resp[p].reward.streak_bonus = 10

\* C22: calculate_reward reports exactly one of three outcomes for every
\* input: circuit_breaker_active (gii below halt), accuracy_too_low (gii
\* not below halt, accuracy below 0.70) or a reward with breakdown; the
\* circuit breaker is checked first, so gii below halt with accuracy below
\* 0.70 is circuit_breaker_active and never accuracy_too_low.
C22_ThreeOutcomes ==
    \A p \in Threads :
        DoneReward(p) =>
            LET a == loc[p].args
                r == resp[p].reward
            IN  /\ r.circuit_breaker_active <=> a.gii < 50000
                /\ r.accuracy_too_low <=> (a.gii >= 50000 /\ a.accuracy < 700)
                /\ r.has_breakdown <=> (a.gii >= 50000 /\ a.accuracy >= 700)
                /\ ~r.has_breakdown => r.mic_earned = 0
                /\ Cardinality({o \in {"breaker", "too_low", "breakdown"} :
                       \/ o = "breaker" /\ r.circuit_breaker_active
                       \/ o = "too_low" /\ r.accuracy_too_low
                       \/ o = "breakdown" /\ r.has_breakdown}) = 1

\* C22 witness: gii below halt together with an accuracy below 0.70 has
\* been reported as circuit_breaker_active.
C22_Witness ==
    \E p \in Threads :
        /\ DoneReward(p)
        /\ loc[p].args.gii = 49999 /\ loc[p].args.accuracy = 690
        /\ resp[p].reward.circuit_breaker_active
        /\ ~resp[p].reward.accuracy_too_low

\* C28: in every reward result with a breakdown, mic_earned is
\* breakdown.base + breakdown.perfect_bonus + breakdown.streak_bonus.
C28_BreakdownAddsUp ==
    \A p \in Threads :
        DoneReward(p) /\ resp[p].reward.has_breakdown =>
            resp[p].reward.mic_earned
                = resp[p].reward.base + resp[p].reward.perfect_bonus
                  + resp[p].reward.streak_bonus

\* C29: the two copies of the integrity logic agree for every gii: the
\* thresholds are the same, calculate_gii_multiplier(gii) is the multiplier
\* calculate_mic_reward applies, and check_circuit_breaker(gii) holds
\* exactly when calculate_mic_reward reports circuit_breaker_active.
C29_CopiesAgree ==
    /\ gii_thresholds.halt = gii_threshold_halt
    /\ gii_thresholds.critical = gii_threshold_critical
    /\ gii_thresholds.warning = gii_threshold_warning
    /\ gii_thresholds.healthy = gii_threshold_healthy
    /\ \A p \in Threads :
           DoneReward(p) =>
               /\ resp[p].reward.circuit_breaker_active
                      <=> check_circuit_breaker(loc[p].args.gii)
               /\ resp[p].reward.has_breakdown =>
                      resp[p].reward.mult_gii
                          = calculate_gii_multiplier(loc[p].args.gii)

\* C29 witness: a reward computed with gii exactly on the warning
\* threshold, where both copies give 0.8 and neither halts.
C29_Witness ==
    \E p \in Threads :
        /\ DoneReward(p) /\ resp[p].reward.has_breakdown
        /\ loc[p].args.gii = 75000
        /\ resp[p].reward.mult_gii = 8
        /\ calculate_gii_multiplier(75000) = 8
        /\ ~check_circuit_breaker(75000)

----------------------------------------------------------------------------
(* The Earn API: C23, C25, C30 *)

\* C23, the amount earn_mic resolves: a step that resolves the amount
\* takes meta.mic_earned when the source is learning_module_completion and
\* the key is there, and otherwise the base reward of the source (5 for a
\* source not in the table) times the multiplier of the current gii.
C23_Step ==
    \A p \in Threads :
        pc[p] = "earn_amount" /\ pc'[p] # "earn_amount" =>
            LET source == loc[p].source
                meta == loc[p].meta
                base == IF source \in DOMAIN source_rewards
                        THEN source_rewards[source] ELSE 5
            IN  IF source = "learning_module_completion" /\ meta.has_mic
                THEN loc'[p].amount = meta.mic_earned
                ELSE loc'[p].amount = base * StairGii(SIMULATED_GII) * 100

\* The entry written holds the resolved amount, rounded to 2 decimals.
C23_State ==
    \A p \in Threads :
        DoneEarn(p) /\ resp[p].status = 201 =>
            /\ 2 * (10 * resp[p].entry.amount - loc[p].amount) <= 10
            /\ 2 * (loc[p].amount - 10 * resp[p].entry.amount) <= 10
            /\ ~(loc[p].source = "learning_module_completion"
                    /\ loc[p].meta.has_mic) =>
                   10 * resp[p].entry.amount = loc[p].amount

\* C23: the Earn API resolves the amount of the entry it writes so: the
\* caller-supplied meta.mic_earned is used only when the source is
\* learning_module_completion and that key is present; in every other case
\* the amount is the default base reward of the source from the static
\* table (5 for a source absent from it) times the current gii multiplier,
\* rounded to 2 decimals.
C23_EarnAmount == [](C23_State) /\ [][C23_Step]_vars

\* C23 witness: a source absent from the table, sent with a mic_earned of
\* its own, has been written with the default 5.
C23_Witness ==
    \E p \in Threads :
        /\ DoneEarn(p) /\ resp[p].status = 201
        /\ loc[p].source = "quiz_bonus" /\ loc[p].meta.has_mic
        /\ resp[p].entry.amount = 500

\* A learning_module_completion with mic_earned 1.234 has been written
\* with the amount 1.23.
C23_Supplied ==
    \E p \in Threads :
        /\ DoneEarn(p) /\ resp[p].status = 201
        /\ loc[p].source = "learning_module_completion"
        /\ loc[p].meta.mic_earned = 1234
        /\ resp[p].entry.amount = 123

\* The gii is in the band whose multiplier is 0: at or above halt, below
\* critical.
ZeroBand(gii) == gii >= 50000 /\ gii < 60000

\* C25: while the gii multiplier is 0 (gii at or above halt, below
\* critical) no Earn request, whatever its source and meta, appends an
\* entry with a positive amount.  The requests looked at are those whose
\* reads of the index all fell into that band.
C25_ZeroBandNoMint ==
    \A p \in Threads :
        (/\ DoneEarn(p) /\ resp[p].status = 201
         /\ ZeroBand(loc[p].chk_gii) /\ ZeroBand(loc[p].gii)
         /\ loc[p].amount = earn_amount(loc[p].source, loc[p].meta, loc[p].gii).v)
        => resp[p].entry.amount <= 0

\* The reason the prefix of a source stands for.
ReasonOfPrefix(source) ==
    CASE source \in {"learning_module_completion", "learnings_digest",
                     "oaa_tutor_question"} -> "LEARN"
      [] source = "reflection_spark" -> "REFLECTION"
      [] source \in {"civic_radar_action_taken", "shield_checklist_item"} -> "CIVIC"
      [] OTHER -> "EARN"

\* C30: every entry created through the Earn API has a reason of the
\* enumeration, given by the prefix of its source alone: learning* or oaa*
\* is LEARN, reflection* is REFLECTION, civic* or shield* is CIVIC, any
\* other source is EARN; the Earn API never writes CORRECTION or BONUS.
C30_EarnReason ==
    \A p \in Threads :
        DoneEarn(p) /\ resp[p].status = 201 =>
            /\ resp[p].entry.reason \in MICReason \ {"CORRECTION", "BONUS"}
            /\ resp[p].entry.reason = ReasonOfPrefix(resp[p].entry.source)
            /\ InLedger(resp[p].entry)

\* C30 witness: a shield source has been written as CIVIC after a source
\* that merely holds "learning" inside was written as EARN.
C30_Witness ==
    /\ Len(MIC_LEDGER) = 2
    /\ MIC_LEDGER[1].source = "relearning_bonus" /\ MIC_LEDGER[1].reason = "EARN"
    /\ MIC_LEDGER[2].source = "shield_checklist_item"
    /\ MIC_LEDGER[2].reason = "CIVIC"
    /\ \E p \in Threads : DoneEarn(p) /\ resp[p].entry = MIC_LEDGER[2]

----------------------------------------------------------------------------
(* C24 *)

\* C24: every ledger entry with amount > 0 records a gii snapshot that is
\* not below the halt threshold, in every reachable state, also when the
\* index changes between the circuit-breaker check of write_entry and its
\* separate read of the gii it stores.
C24_PositiveEntriesNotHalted ==
    \A i \in DOMAIN MIC_LEDGER :
        MIC_LEDGER[i].amount > 0 => MIC_LEDGER[i].gii >= halt

----------------------------------------------------------------------------
(* C27 *)

\* C27: the page-size caps hold for every query: for any integer limit and
\* offset, zero and negative ones included, and any ledger, GET /mic/events
\* returns at most 100 entries and GET /mic/ledger at most 200.
C27_PageCaps ==
    \A p \in Threads :
        pc[p] = "done" /\ resp[p].status = 200 =>
            /\ loc[p].op = "get_events" => Len(resp[p].items) <= 100
            /\ loc[p].op = "get_ledger" => Len(resp[p].items) <= 200

----------------------------------------------------------------------------
(* C26 *)

DonePaging(p) == pc[p] = "done" /\ loc[p].op = "page_events"

\* C26: when a client pages through a user's events with a fixed limit and
\* the offsets 0, limit, 2 * limit, ... while writes for that user come in
\* between the page reads, every entry that was in the ledger at the first
\* page read appears in some returned page: an entry may come twice, none
\* is skipped.
C26_NoEntrySkipped ==
    \A p \in Threads :
        /\ DonePaging(p) => loc[p].pager.first \subseteq loc[p].pager.seen
        /\ pc[p] = "paging" =>
               \A i \in DOMAIN MIC_LEDGER :
                   MIC_LEDGER[i].id \in loc[p].pager.first \ loc[p].pager.seen =>
                       \E k \in 1..MaxPagedLedger + 1 :
                           MIC_LEDGER[i].id \in
                               ids_of(get_user_events(loc[p].user_id,
                                          loc[p].pager.limit,
                                          loc[p].pager.offset
                                              + k * loc[p].pager.limit))

\* C26 witness: a client has paged to the end through a ledger that held
\* two entries at its first read and got a third in between; it got every
\* entry of the first read, one of them twice.
C26_Witness ==
    \E p \in Threads :
        /\ DonePaging(p)
        /\ Cardinality(loc[p].pager.first) = 2
        /\ Len(MIC_LEDGER) = 3
        /\ loc[p].pager.first \subseteq loc[p].pager.seen
        /\ loc[p].pager.got > Cardinality(loc[p].pager.seen)

====
